---- MODULE Spec2Model ----
(***************************************************************************)
(* AsyncCaller (src/src/asyncCaller/index.ts) and its TokenBucket          *)
(* (src/src/tokenBucket/index.ts) as a state machine.                      *)
(*                                                                         *)
(* One action is one task of the JavaScript event loop: a timer callback,  *)
(* the settling of a wrapped operation, or a call made by client code,     *)
(* together with every promise continuation (microtask) it triggers.       *)
(* Time advances in steps of TickMs. A timer fires once its delay has      *)
(* passed and before more time passes; timers due together fire in any     *)
(* order.                                                                  *)
(*                                                                         *)
(* Spec       is an AsyncCaller with its private bucket; the callers of     *)
(*            the bucket are the submissions.                              *)
(* SpecBucket is a TokenBucket used directly by clients.                   *)
(***************************************************************************)
EXTENDS Integers, Sequences, FiniteSets, TLC

\* ------------------------------------------------------------------ bounds
\* Largest capacity a bucket is constructed with.
MaxCapacity == 2
\* Direct clients of a stand-alone bucket, and the amounts they ask for.
NumClients == 2
MaxAmount == 2
\* Longest forced pause a direct client asks for, in steps of TickMs.
MaxPauseTicks == 1
\* Submissions made to an AsyncCaller.
NumTasks == 2
NumSchedTasks == 3
\* Largest maxRetries and concurrency an AsyncCaller is constructed with.
MaxMaxRetries == 1
MaxConcurrency == 2
\* Outcomes of wrapped operations that are rate-limited or transient, in all.
MaxFailures == 2
MaxLiveFailures == 1
\* Largest maxRetries of the AsyncCaller whose delays are measured, and the
\* number of its submissions.
MaxDelayRetries == 6
NumDelayTasks == 1
\* The AsyncCaller whose attempts are recorded: its submissions, its largest
\* maxRetries, and the rate-limited and transient outcomes it may meet.
NumRetryTasks == 1
MaxRetryRetries == 1
MaxRetryFailures == 2
\* The capacity and fillPerWindow of the bucket of an AsyncCaller.
CallerCapacity == 1
\* The number of seconds a Retry-After header names.
RetryAfterSecs == 2

\* ------------------------------------------------- configuration of a run
windowInMs == 1000
minDelayInMs == 1000
maxDelayInMs == 10000
backoffFactor == 2
TickMs == windowInMs

Min(a, b) == IF a < b THEN a ELSE b
Max(a, b) == IF a > b THEN a ELSE b
Dec(x) == Max(x - TickMs, 0)

Clients == 1..NumClients
MaxTasks == Max(Max(NumTasks, NumSchedTasks), Max(NumDelayTasks, NumRetryTasks))
Tasks == 1..MaxTasks
Ids == 1..Max(NumClients, MaxTasks)
Amounts == 1..MaxAmount
PauseDelays == {k * TickMs : k \in 0..MaxPauseTicks}
ElapsedCap == Max((Max(MaxPauseTicks, RetryAfterSecs) + 1) * TickMs, maxDelayInMs)

VARIABLES
  \* TokenBucket
  tb,           \* the fields of the bucket
  tokRes,       \* per caller of consumeAsync: the state of its promise
  \* AsyncCaller
  options,      \* retryOptions.maxRetries, concurrency; the calls to come,
                \* the failures the wrapped operations may produce, and
                \* whether the history of the attempts is kept
  runningTasks, \* AsyncCaller.runningTasks
  queue,        \* AsyncCaller.queue: the submissions awaiting admission
  pc,           \* per submission: where it stands
  frames,       \* per submission: its nested executeWithRetry calls
  pend,         \* per submission in a delay: the call made when it ends
  delayLeft,    \* per submission in a delay: what is left of its setTimeout
  invoked,      \* per submission: invocations of its wrapped operation
  result,       \* per submission: how the promise of call() settled
  \* history
  op,           \* the call a direct client made in the last step, if any
  pauseDelay,   \* the delay of the forced pause that is ongoing
  pauseElapsed, \* the time elapsed since that pause started (saturating)
  admitted,     \* the submissions in the order of their admission
  failures,     \* rate-limited and transient outcomes so far
  trace,        \* per submission: a summary of its outcomes
  history       \* per submission: its attempts, where options.keepHistory

bucketVars == <<tb, tokRes>>
callerVars == <<options, runningTasks, queue, pc, frames, pend, delayLeft,
                invoked, result>>
historyVars == <<op, pauseDelay, pauseElapsed, admitted, failures,
                 trace, history>>
vars == <<bucketVars, callerVars, historyVars>>

\* ------------------------------------------------------------ TokenBucket

\* stop(): clearInterval and forget the timer.
stop(b) == [b EXCEPT !.timerId = FALSE, !.refillLeft = 0]

\* _startInternal(): start the refill interval unless one is running.
startInternal(b) ==
  IF ~b.timerId THEN [b EXCEPT !.timerId = TRUE, !.refillLeft = windowInMs]
  ELSE b

\* new TokenBucket(options) for options that validate() accepts.
TokenBucketNew(capacity, fillPerWindow, initialTokens) ==
  startInternal([capacity |-> capacity, fillPerWindow |-> fillPerWindow,
                 tokens |-> initialTokens, timerId |-> FALSE, refillLeft |-> 0,
                 ongoingForcedStop |-> FALSE, pauseLeft |-> 0,
                 waitQueue |-> <<>>])

\* A number as the constructor may be given it: an integer, NaN, or (for
\* initialTokens) undefined. A comparison with NaN or undefined is false.
Num(v) == [kind |-> "int", v |-> v]
NaN == [kind |-> "NaN", v |-> 0]
NotGiven == [kind |-> "undefined", v |-> 0]
Less(a, b) == a.kind = "int" /\ b.kind = "int" /\ a.v < b.v
LessEq(a, b) == a.kind = "int" /\ b.kind = "int" /\ a.v <= b.v
Greater(a, b) == Less(b, a)

\* validate(options): TRUE when it returns, FALSE when it throws.
validate(o) ==
  ~ \/ LessEq(o.capacity, Num(0))
    \/ LessEq(o.fillPerWindow, Num(0))
    \/ LessEq(o.windowInMs, Num(0))
    \/ /\ o.initialTokens # NotGiven
       /\ \/ Less(o.initialTokens, Num(0))
          \/ Greater(o.initialTokens, o.capacity)
    \/ Greater(o.fillPerWindow, o.capacity)

\* No bucket: what a constructor that throws leaves behind.
NoBucket ==
  [capacity |-> Num(0), fillPerWindow |-> Num(0), tokens |-> Num(0),
   timerId |-> FALSE, refillLeft |-> 0, ongoingForcedStop |-> FALSE,
   pauseLeft |-> 0, waitQueue |-> <<>>]

\* new TokenBucket(options) for any options: the fields keep the numbers
\* given, and the interval is started with the window given.
constructor(o) ==
  IF validate(o)
    THEN [ret |-> "ok",
          b |-> [TokenBucketNew(o.capacity, o.fillPerWindow,
                                IF o.initialTokens # NotGiven
                                  THEN o.initialTokens ELSE o.capacity)
                   EXCEPT !.refillLeft = IF o.windowInMs.kind = "int"
                                           THEN o.windowInMs.v ELSE 0]]
    ELSE [ret |-> "error", b |-> NoBucket]

\* A refill that does not stop at capacity.
addTokenNoCap(b) == [b EXCEPT !.tokens = b.tokens + b.fillPerWindow]
\* _addToken()
addToken(b) == [b EXCEPT !.tokens = Min(b.tokens + b.fillPerWindow, b.capacity)]

\* The guard at the head of consume and consumeAsync.
ensureStarted(b) ==
  IF ~b.timerId /\ ~b.ongoingForcedStop THEN startInternal(b) ELSE b

\* A consume that asks for one token more than the amount.
consumeStrict(b, amount) ==
  LET b1 == ensureStarted(b)
  IN IF b1.tokens > amount
       THEN [b |-> [b1 EXCEPT !.tokens = b1.tokens - amount], ret |-> TRUE]
       ELSE [b |-> b1, ret |-> FALSE]
\* consume(amount): the bucket afterwards and the value returned.
consume(b, amount) ==
  LET b1 == ensureStarted(b)
  IN IF b1.tokens >= amount
       THEN [b |-> [b1 EXCEPT !.tokens = b1.tokens - amount], ret |-> TRUE]
       ELSE [b |-> b1, ret |-> FALSE]

\* A queue served from its tail.
shiftLast(q) == [w |-> q[Len(q)], rest |-> SubSeq(q, 1, Len(q) - 1)]
\* _waitQueue.shift()
shift(q) == [w |-> Head(q), rest |-> Tail(q)]

\* A _tryResolveWaiting that goes on when no token is left.
RECURSIVE tryResolveWaitingAtZero(_, _)
tryResolveWaitingAtZero(b, done) ==
  IF b.tokens >= 0 /\ Len(b.waitQueue) > 0
    THEN LET s == shift(b.waitQueue)
             c == consume([b EXCEPT !.waitQueue = s.rest], s.w.amount)
         IN tryResolveWaitingAtZero(c.b,
              Append(done, [id |-> s.w.id, amount |-> s.w.amount, ok |-> c.ret]))
    ELSE [b |-> b, served |-> done]

\* _tryResolveWaiting(): each resolver dequeued calls consume(amount) at once.
RECURSIVE tryResolveWaitingFrom(_, _)
tryResolveWaitingFrom(b, done) ==
  IF b.tokens > 0 /\ Len(b.waitQueue) > 0
    THEN LET s == shift(b.waitQueue)
             c == consume([b EXCEPT !.waitQueue = s.rest], s.w.amount)
         IN tryResolveWaitingFrom(c.b,
              Append(done, [id |-> s.w.id, amount |-> s.w.amount, ok |-> c.ret]))
    ELSE [b |-> b, served |-> done]

tryResolveWaiting(b) == tryResolveWaitingFrom(b, <<>>)

\* A forced pause that a later call sets anew.
forceWaitAgain(b, delayInMs) ==
  [stop(b) EXCEPT !.ongoingForcedStop = TRUE, !.tokens = 0,
                  !.pauseLeft = delayInMs]
\* A forced pause that leaves the refill timer running.
forceWaitNoStop(b, delayInMs) ==
  IF b.ongoingForcedStop THEN b
  ELSE [b EXCEPT !.ongoingForcedStop = TRUE, !.tokens = 0,
                 !.pauseLeft = delayInMs]
\* forceWaitUntilMilisecondsPassed(delayInMs), up to its setTimeout.
forceWaitUntilMilisecondsPassed(b, delayInMs) ==
  IF b.ongoingForcedStop THEN b
  ELSE [stop(b) EXCEPT !.ongoingForcedStop = TRUE, !.tokens = 0,
                       !.pauseLeft = delayInMs]

\* An end of the forced pause that leaves the waiters in the queue.
forcedStopEndNoServe(b) ==
  [b |-> [startInternal([b EXCEPT !.tokens = b.capacity])
            EXCEPT !.ongoingForcedStop = FALSE, !.pauseLeft = 0],
   served |-> <<>>]

\* The callback of the setTimeout of forceWaitUntilMilisecondsPassed.
forcedStopEnd(b) ==
  LET r == tryResolveWaiting(startInternal([b EXCEPT !.tokens = b.capacity]))
  IN [b |-> [r.b EXCEPT !.ongoingForcedStop = FALSE, !.pauseLeft = 0],
      served |-> r.served]

\* A callback of the interval that leaves the timer running on a full bucket.
refillTickNeverStops(b) ==
  LET b1 == [b EXCEPT !.refillLeft = windowInMs]
  IN IF b1.tokens < b1.capacity
       THEN tryResolveWaiting(addToken(b1))
       ELSE [b |-> b1, served |-> <<>>]

\* The callback of the setInterval of _startInternal.
refillTick(b) ==
  LET b1 == [b EXCEPT !.refillLeft = windowInMs]
  IN IF b1.tokens < b1.capacity
       THEN tryResolveWaiting(addToken(b1))
       ELSE [b |-> stop(b1), served |-> <<>>]

\* A consumeAsync that resolves false at once rather than wait.
consumeAsyncNoWait(b, id, amount) ==
  LET c == consume(ensureStarted(b), amount)
  IN [b |-> c.b, res |-> IF c.ret THEN "true" ELSE "false"]

\* consumeAsync(amount) by caller id: the bucket afterwards and the promise:
\* "true"/"false" when it resolves at once, "pending" when a waiter is queued.
consumeAsync(b, id, amount) ==
  LET b1 == ensureStarted(b)
  IN IF b1.tokens >= amount
       THEN LET c == consume(b1, amount)
            IN [b |-> c.b, res |-> IF c.ret THEN "true" ELSE "false"]
       ELSE [b |-> [b1 EXCEPT !.waitQueue =
                       Append(@, [id |-> id, amount |-> amount])],
             res |-> "pending"]

\* ------------------------------------------- values of wrapped operations

\* What an operation settles with: a response or an error, the number under
\* its status field (0: it has none), its Retry-After header, whether its
\* JSON body holds a message, and the invocation that produced it (src says
\* where an error comes from: the operation, or executeWithRetry itself).
NoHeader == [form |-> "none", v |-> 0]
Undefined == [kind |-> "undefined", status |-> 0, hdr |-> NoHeader,
              msg |-> FALSE, src |-> "none", i |-> 0]

Response(status, hdr, msg, i) ==
  [kind |-> "response", status |-> status, hdr |-> hdr, msg |-> msg,
   src |-> "fn", i |-> i]
Rejection(status, hdr, i) ==
  [kind |-> "error", status |-> status, hdr |-> hdr, msg |-> FALSE,
   src |-> "fn", i |-> i]

\* Retry-After: absent, an integer of seconds, an HTTP date (v: the date
\* minus now, in ms), or text that is neither.
RateHeaders == { NoHeader, [form |-> "int", v |-> RetryAfterSecs] }

\* The headers of a rate-limited outcome in all their forms: no headers at
\* all, headers without Retry-After, text that is no number and no date, an
\* integer of seconds, a date RetryAfterSecs seconds from now.
AllHeaders ==
  { [form |-> "noHeaders", v |-> 0], NoHeader, [form |-> "text", v |-> 0],
    [form |-> "int", v |-> RetryAfterSecs],
    [form |-> "date", v |-> RetryAfterSecs * 1000] }

Fulfilments(i) ==
  { Response(200, NoHeader, FALSE, i), Response(404, NoHeader, FALSE, i) }
  \cup { Response(429, h, FALSE, i) : h \in RateHeaders }
Rejections(i) ==
  { Rejection(0, NoHeader, i), Rejection(404, NoHeader, i) }
  \cup { Rejection(429, h, i) : h \in RateHeaders }

\* extractStatusCodeProperties(err): the numbers found.
extractStatusCodeProperties(x) ==
  IF x.kind # "undefined" /\ x.status # 0 THEN <<x.status>> ELSE <<>>

\* A test for client errors that misses the statuses from 404 on.
isClientSideErrorBelow404(x) ==
  \E k \in DOMAIN extractStatusCodeProperties(x) :
    /\ extractStatusCodeProperties(x)[k] >= 400
    /\ extractStatusCodeProperties(x)[k] < 404

\* isClientSideError(errOrResponse)
isClientSideError(x) ==
  \E k \in DOMAIN extractStatusCodeProperties(x) :
    /\ extractStatusCodeProperties(x)[k] >= 400
    /\ extractStatusCodeProperties(x)[k] < 500

\* isRateLimitedError(errOrResponse)
isRateLimitedError(x) ==
  \E k \in DOMAIN extractStatusCodeProperties(x) :
    extractStatusCodeProperties(x)[k] = 429

\* A non-terminal outcome: rate-limited, or a rejection that is no client error.
IsFailure(x) ==
  isRateLimitedError(x) \/ (x.kind = "error" /\ ~isClientSideError(x))

RECURSIVE Pow(_, _)
Pow(a, n) == IF n = 0 THEN 1 ELSE a * Pow(a, n - 1)

\* calculateDefaultDelay without the cap of maxDelayInMs.
calculateDefaultDelayUncapped(completedTryCount) ==
  minDelayInMs * Pow(backoffFactor, completedTryCount - 1)

\* calculateDefaultDelay(completedTryCount)
calculateDefaultDelay(completedTryCount) ==
  Min(minDelayInMs * Pow(backoffFactor, completedTryCount - 1), maxDelayInMs)

\* extractErrorMessageFromResponse(response): whether a text is found.
extractErrorMessageFromResponse(x) == x.kind = "response" /\ x.msg

\* The error executeWithRetry throws when tryCount > maxRetries + 1.
errorToThrow(lastResponse, lastError) ==
  IF lastError # Undefined THEN lastError
  ELSE IF lastResponse # Undefined
            /\ extractErrorMessageFromResponse(lastResponse)
    THEN [kind |-> "error", status |-> 0, hdr |-> NoHeader, msg |-> TRUE,
          src |-> "text", i |-> lastResponse.i]
    ELSE [kind |-> "error", status |-> 0, hdr |-> NoHeader, msg |-> FALSE,
          src |-> "max", i |-> 0]

\* ------------------------------------------------------------ AsyncCaller

\* The state a step works on: the variables, and the queue of the promise
\* continuations (microtasks) that are ready to run before the step ends.
World ==
  [tb |-> tb, tokRes |-> tokRes, runningTasks |-> runningTasks,
   queue |-> queue, pc |-> pc, frames |-> frames, pend |-> pend,
   delayLeft |-> delayLeft, invoked |-> invoked, result |-> result,
   pauseDelay |-> pauseDelay, pauseElapsed |-> pauseElapsed,
   admitted |-> admitted, trace |-> trace, history |-> history,
   mq |-> <<>>]

\* The attempts of a submission: the latest outcome and the latest error an
\* invocation rejected with; the error thrown since the latest outcome by
\* the test on tryCount that follows the token; the tokens taken from the
\* bucket and the number of times that test has thrown; how the first
\* attempt to end without a retry ended; and the times consumeAsync()
\* resolved false.
NoHistory ==
  [last |-> Undefined, lastRej |-> Undefined, thrown |-> Undefined,
   tokens |-> 0, exceeded |-> 0, term |-> "none", falses |-> 0]

\* The history of submission t is now h.
record(w, t, h) ==
  IF options.keepHistory THEN [w EXCEPT !.history[t] = h] ELSE w

NoFrame == [lastResponse |-> Undefined, lastError |-> Undefined, h |-> "none"]

\* The bucket of the caller is told to pause.
forceWait(w, delayInMs) ==
  [w EXCEPT !.tb = forceWaitUntilMilisecondsPassed(w.tb, delayInMs),
            !.pauseDelay = IF w.tb.ongoingForcedStop THEN @ ELSE delayInMs,
            !.pauseElapsed = IF w.tb.ongoingForcedStop THEN @ ELSE 0]

\* A delay that pauses the bucket whatever the headers.
calculateRetryDelayPauses(w, completedTryCount, headers) ==
  [w |-> forceWait(w, calculateDefaultDelay(completedTryCount)),
   delay |-> calculateDefaultDelay(completedTryCount)]
\* A delay that takes no account of Retry-After.
calculateRetryDelayNoHeader(w, completedTryCount, headers) ==
  [w |-> w, delay |-> calculateDefaultDelay(completedTryCount)]
\* calculateRetryDelay(completedTryCount, headers): the delay, and the state
\* after the pause it may force on the bucket.
calculateRetryDelay(w, completedTryCount, headers) ==
  IF headers.form = "int"
    THEN [w |-> forceWait(w, headers.v * 1000), delay |-> headers.v * 1000]
  ELSE IF headers.form = "date"
    THEN [w |-> forceWait(w, Max(headers.v, 0)), delay |-> Max(headers.v, 0)]
  ELSE [w |-> w, delay |-> calculateDefaultDelay(completedTryCount)]

\* A loop test that admits one submission too many.
hasFreeSlotOrEqual(running, concurrency) == running <= concurrency
\* The test of the loop of processTaskQueue on runningTasks.
hasFreeSlot(running, concurrency) == running < concurrency

\* A task queue served from its tail.
queuePop(q) == [t |-> q[Len(q)], rest |-> SubSeq(q, 1, Len(q) - 1)]
\* queue.shift() in processTaskQueue
queueShift(q) == [t |-> Head(q), rest |-> Tail(q)]

\* processTaskQueue(): each submission admitted has its promise resolved.
RECURSIVE processTaskQueue(_)
processTaskQueue(w) ==
  IF hasFreeSlot(w.runningTasks, options.concurrency) /\ Len(w.queue) > 0
    THEN LET s == queueShift(w.queue)
         IN processTaskQueue(
              [w EXCEPT !.runningTasks = @ + 1, !.queue = s.rest,
                        !.pc[s.t] = "admitted",
                        !.admitted = Append(@, s.t),
                        !.mq = Append(@, s.t)])
    ELSE w

\* A call(fn) that queues the submission and leaves it there.
callOnlyQueues(w, t) ==
  [w EXCEPT !.queue = Append(@, t), !.pc[t] = "queued"]

\* call(fn), up to its await.
call(w, t) ==
  processTaskQueue([w EXCEPT !.queue = Append(@, t), !.pc[t] = "queued"])

\* A finally of executeAndHandleErrors that keeps the slot of the submission.
settleKeepsSlot(w, t, how, value) ==
  processTaskQueue(
    [w EXCEPT !.result[t] = [how |-> how, value |-> value],
              !.pc[t] = "settled", !.frames[t] = <<>>,
              !.trace[t].ago = 0])
\* A finally of executeAndHandleErrors that admits no queued submission.
settleNoAdmit(w, t, how, value) ==
  [w EXCEPT !.result[t] = [how |-> how, value |-> value],
            !.pc[t] = "settled", !.frames[t] = <<>>,
            !.trace[t].ago = 0,
            !.runningTasks = @ - 1]
\* The finally of executeAndHandleErrors, the promise of call() being settled.
settle(w, t, how, value) ==
  processTaskQueue(
    [w EXCEPT !.result[t] = [how |-> how, value |-> value],
              !.pc[t] = "settled", !.frames[t] = <<>>,
              !.trace[t].ago = 0,
              !.runningTasks = @ - 1])

\* An await that goes on as if with a token, the bucket left as it is.
acquireNothing(w, t) ==
  [w EXCEPT !.tokRes[t] = "true", !.pc[t] = "tokenReady",
            !.mq = Append(@, t)]

\* executeWithRetry awaits consumeAsync().
acquire(w, t) ==
  LET r == consumeAsync(w.tb, t, 1)
  IN [record(w, t, [w.history[t] EXCEPT
                       !.tokens = @ + (w.tb.tokens - r.b.tokens)])
        EXCEPT !.tb = r.b, !.tokRes[t] = r.res,
               !.pc[t] = IF r.res = "pending" THEN "waiting" ELSE "tokenReady",
               !.mq = IF r.res = "pending" THEN @ ELSE Append(@, t)]

\* A handler of executeWithRetry waits for delay ms and calls executeWithRetry.
startDelay(w, t, delay, h, child) ==
  [w EXCEPT !.pc[t] = "delay", !.delayLeft[t] = delay,
            !.frames[t][Len(w.frames[t])].h = h, !.pend[t] = child]

\* A catch handler that gives up one try later.
retriesSpentLate(tryCount, maxRetries) == tryCount = maxRetries + 2
\* The test of the catch handler on tryCount.
retriesSpent(tryCount, maxRetries) == tryCount = maxRetries + 1

\* The test of executeWithRetry on tryCount, after the token.
retriesExceeded(tryCount, maxRetries) == tryCount > maxRetries + 1

RECURSIVE rejectFrame(_, _, _)

\* The catch handler of the innermost executeWithRetry call.
onRejected(w, t, err, directlyReturnErrorAsResult) ==
  LET tryCount == Len(w.frames[t])
      top == w.frames[t][tryCount]
  IN IF directlyReturnErrorAsResult THEN settle(w, t, "resolved", err)
     ELSE IF retriesSpent(tryCount, options.maxRetries)
       THEN rejectFrame(w, t, err)
     ELSE IF isRateLimitedError(err)
       THEN LET r == calculateRetryDelay(w, tryCount, err.hdr)
            IN startDelay(r.w, t, r.delay, "catch",
                 [lastResponse |-> top.lastResponse, lastError |-> err,
                  h |-> "none"])
     ELSE IF isClientSideError(err) THEN rejectFrame(w, t, err)
     ELSE startDelay(w, t, calculateDefaultDelay(tryCount), "catch",
            [lastResponse |-> err, lastError |-> Undefined, h |-> "none"])

\* The promise of the innermost executeWithRetry call rejects: the call that
\* returned it from its then handler catches the error, the call that
\* returned it from its catch handler rejects in turn.
rejectFrame(w, t, err) ==
  LET n == Len(w.frames[t])
      w1 == [w EXCEPT !.frames[t] = SubSeq(@, 1, n - 1)]
  IN IF n = 1 THEN settle(w, t, "rejected", err)
     ELSE IF w.frames[t][n - 1].h = "then" THEN onRejected(w1, t, err, FALSE)
     ELSE rejectFrame(w1, t, err)

\* The then handler of the innermost executeWithRetry call.
onFulfilled(w, t, res) ==
  LET tryCount == Len(w.frames[t])
      top == w.frames[t][tryCount]
  IN IF isRateLimitedError(res)
       THEN LET r == calculateRetryDelay(w, tryCount, res.hdr)
            IN startDelay(r.w, t, r.delay, "then",
                 [lastResponse |-> res, lastError |-> top.lastError,
                  h |-> "none"])
     ELSE IF isClientSideError(res) THEN onRejected(w, t, res, TRUE)
     ELSE settle(w, t, "resolved", res)

\* executeWithRetry after consumeAsync() resolved.
afterToken(w, t) ==
  LET tryCount == Len(w.frames[t])
      top == w.frames[t][tryCount]
      w1 == [w EXCEPT !.tokRes[t] = "none"]
  IN IF w.tokRes[t] # "true"
       THEN acquire(record(w1, t, [w1.history[t] EXCEPT !.falses = @ + 1]), t)
     ELSE IF retriesExceeded(tryCount, options.maxRetries)
       THEN rejectFrame(
              record(w1, t,
                [w1.history[t] EXCEPT
                   !.thrown = errorToThrow(top.lastResponse, top.lastError),
                   !.exceeded = @ + 1,
                   !.term = IF @ = "none" THEN "exhausted" ELSE @]),
              t, errorToThrow(top.lastResponse, top.lastError))
     ELSE [w1 EXCEPT !.pc[t] = "inflight", !.invoked[t] = @ + 1,
                     !.trace[t].ago = 0]

\* executeWithRetry(fn, tryCount, lastResponse, lastError), up to its await.
executeWithRetry(w, t, frame) ==
  acquire([w EXCEPT !.frames[t] = Append(@, frame)], t)

\* The continuation of submission t that is ready to run.
continue(w, t) ==
  IF w.pc[t] = "admitted" THEN executeWithRetry(w, t, NoFrame)
  ELSE IF w.pc[t] = "tokenReady" THEN afterToken(w, t)
  ELSE w

\* The microtasks run until none is left.
RECURSIVE drain(_)
drain(w) ==
  IF w.mq = <<>> THEN w
  ELSE drain(continue([w EXCEPT !.mq = Tail(@)], Head(w.mq)))

\* The waiters a step of the bucket served have their promises resolved.
RECURSIVE resolveServed(_, _)
resolveServed(w, sv) ==
  IF sv = <<>> THEN w
  ELSE LET x == Head(sv)
           isTask == x.id \in Tasks /\ w.pc[x.id] = "waiting"
       IN resolveServed(
            [(IF isTask /\ x.ok
                THEN record(w, x.id, [w.history[x.id] EXCEPT
                                        !.tokens = @ + x.amount])
                ELSE w)
               EXCEPT !.tokRes[x.id] = IF x.ok THEN "true" ELSE "false",
                      !.pc = IF isTask THEN [@ EXCEPT ![x.id] = "tokenReady"]
                             ELSE @,
                      !.mq = IF isTask THEN Append(@, x.id) ELSE @],
            Tail(sv))

\* The step ends in state w.
Commit(w) ==
  /\ tb' = w.tb
  /\ tokRes' = w.tokRes
  /\ runningTasks' = w.runningTasks
  /\ queue' = w.queue
  /\ pc' = w.pc
  /\ frames' = w.frames
  /\ pend' = w.pend
  /\ delayLeft' = w.delayLeft
  /\ invoked' = w.invoked
  /\ result' = w.result
  /\ pauseDelay' = w.pauseDelay
  /\ pauseElapsed' = w.pauseElapsed
  /\ admitted' = w.admitted
  /\ trace' = w.trace
  /\ history' = w.history
  /\ UNCHANGED options

NoCall == [name |-> "none", amount |-> 0, ret |-> "none"]

\* ---------------------------------------------------------------- steps

\* The first outcome of a submission, as far as it is told apart: a response
\* with status 429 and an integer Retry-After, a response with a status in
\* [400,500) other than 429, or another one.
FirstOutcome(x) ==
  IF x.kind = "response" /\ x.status = 429 /\ x.hdr.form = "int"
    THEN "retryAfter"
  ELSE IF x.kind = "response" /\ x.status >= 400 /\ x.status < 500
            /\ x.status # 429
    THEN "clientError"
  ELSE "other"

\* The summary of the outcomes of a submission: the first; whether all after
\* the first were successes; whether all were rejections without status, all
\* responses with status 429; and the time since the latest outcome
\* (saturating), until the next invocation starts.
NoTrace ==
  [first |-> "none", restOk |-> TRUE, allNet |-> TRUE, all429 |-> TRUE,
   ago |-> 0]

\* What holds after construction, whatever the options.
InitCommon ==
  /\ tokRes = [c \in Ids |-> "none"]
  /\ runningTasks = 0
  /\ queue = <<>>
  /\ pc = [t \in Tasks |-> "new"]
  /\ frames = [t \in Tasks |-> <<>>]
  /\ pend = [t \in Tasks |-> NoFrame]
  /\ delayLeft = [t \in Tasks |-> 0]
  /\ invoked = [t \in Tasks |-> 0]
  /\ result = [t \in Tasks |-> [how |-> "pending", value |-> Undefined]]
  /\ op = NoCall
  /\ pauseDelay = 0
  /\ pauseElapsed = 0
  /\ admitted = <<>>
  /\ failures = 0
  /\ trace = [t \in Tasks |-> NoTrace]
  /\ history = [t \in Tasks |-> NoHistory]

\* new AsyncCaller({tokenBucketOptions, retryOptions, concurrency}): no retry
\* or the most, one slot or the most.
Init ==
  /\ \E maxRetries \in {0, MaxMaxRetries} :
       \E concurrency \in {1, MaxConcurrency} :
       options = [maxRetries |-> maxRetries, concurrency |-> concurrency,
                  submissions |-> NumTasks, failures |-> MaxFailures,
                  keepHistory |-> FALSE]
  /\ tb = TokenBucketNew(CallerCapacity, CallerCapacity, CallerCapacity)
  /\ InitCommon

\* new AsyncCaller with retryOptions.maxRetries 0, for more submissions.
InitSched ==
  /\ \E concurrency \in 1..MaxConcurrency :
       options = [maxRetries |-> 0, concurrency |-> concurrency,
                  submissions |-> NumSchedTasks, failures |-> MaxFailures,
                  keepHistory |-> FALSE]
  /\ tb = TokenBucketNew(CallerCapacity, CallerCapacity, CallerCapacity)
  /\ InitCommon

\* new AsyncCaller, for the behaviours without end: no retry or the most,
\* one slot or the most.
InitLive ==
  /\ \E maxRetries \in {0, MaxMaxRetries} :
       \E concurrency \in {1, MaxConcurrency} :
       options = [maxRetries |-> maxRetries, concurrency |-> concurrency,
                  submissions |-> NumTasks, failures |-> MaxLiveFailures,
                  keepHistory |-> FALSE]
  /\ tb = TokenBucketNew(CallerCapacity, CallerCapacity, CallerCapacity)
  /\ InitCommon

\* new AsyncCaller with one slot, for operations that reject without status
\* as often as the retries allow.
InitDelay ==
  /\ \E maxRetries \in 0..MaxDelayRetries :
       options = [maxRetries |-> maxRetries, concurrency |-> 1,
                  submissions |-> NumDelayTasks, failures |-> maxRetries + 1,
                  keepHistory |-> FALSE]
  /\ tb = TokenBucketNew(CallerCapacity, CallerCapacity, CallerCapacity)
  /\ InitCommon

\* new AsyncCaller, the history of its attempts being kept.
InitRetry ==
  /\ \E maxRetries \in 0..MaxRetryRetries :
       \E concurrency \in 1..NumRetryTasks :
         options = [maxRetries |-> maxRetries, concurrency |-> concurrency,
                    submissions |-> NumRetryTasks,
                    failures |-> MaxRetryFailures, keepHistory |-> TRUE]
  /\ tb = TokenBucketNew(CallerCapacity, CallerCapacity, CallerCapacity)
  /\ InitCommon

\* new AsyncCaller with retryOptions.maxRetries 0, the history of the
\* attempts of its submissions being kept.
InitShared ==
  /\ \E concurrency \in 1..MaxConcurrency :
       options = [maxRetries |-> 0, concurrency |-> concurrency,
                  submissions |-> NumTasks, failures |-> MaxFailures,
                  keepHistory |-> TRUE]
  /\ tb = TokenBucketNew(CallerCapacity, CallerCapacity, CallerCapacity)
  /\ InitCommon

\* new TokenBucket(options)
InitBucket ==
  /\ options = [maxRetries |-> 0, concurrency |-> 1, submissions |-> 0,
                failures |-> 0, keepHistory |-> FALSE]
  /\ \E capacity \in 1..MaxCapacity :
       \E fillPerWindow \in 1..capacity :
         \E initialTokens \in 0..capacity :
           tb = TokenBucketNew(capacity, fillPerWindow, initialTokens)
  /\ InitCommon

\* Before any TokenBucket is constructed.
InitNew ==
  /\ options = [maxRetries |-> 0, concurrency |-> 1, submissions |-> 0,
                failures |-> 0, keepHistory |-> FALSE]
  /\ tb = NoBucket
  /\ InitCommon

\* The options a client may construct a TokenBucket with.
NewOptions ==
  [capacity : {NaN} \cup {Num(v) : v \in -1..MaxCapacity},
   fillPerWindow : {NaN} \cup {Num(v) : v \in -1..MaxCapacity},
   windowInMs : {NaN, Num(0 - windowInMs), Num(0), Num(windowInMs)},
   initialTokens : {NotGiven, NaN} \cup {Num(v) : v \in -1..(MaxCapacity + 1)}]

\* A client evaluates new TokenBucket(o).
New(o) ==
  /\ op.name = "none"
  /\ LET c == constructor(o)
     IN /\ tb' = c.b
        /\ op' = [name |-> "new", amount |-> 0, ret |-> c.ret, options |-> o]
  /\ UNCHANGED <<tokRes, callerVars, pauseDelay, pauseElapsed, admitted,
                 failures, trace, history>>

\* A client calls consume(amount).
Consume(amount) ==
  LET c == consume(tb, amount)
  IN /\ Commit([World EXCEPT !.tb = c.b])
     /\ op' = [name |-> "consume", amount |-> amount,
               ret |-> IF c.ret THEN "true" ELSE "false"]
     /\ UNCHANGED failures

\* A client with no call outstanding calls consumeAsync(amount).
ConsumeAsync(c, amount) ==
  /\ tokRes[c] = "none"
  /\ LET r == consumeAsync(tb, c, amount)
     IN /\ Commit([World EXCEPT !.tb = r.b, !.tokRes[c] = r.res])
        /\ op' = [name |-> "consumeAsync", amount |-> amount, ret |-> r.res]
  /\ UNCHANGED failures

\* The client awaiting a resolved consumeAsync promise goes on.
Resume(c) ==
  /\ tokRes[c] \in {"true", "false"}
  /\ Commit([World EXCEPT !.tokRes[c] = "none"])
  /\ op' = NoCall
  /\ UNCHANGED failures

\* A client calls forceWaitUntilMilisecondsPassed(d).
ForceWait(d) ==
  /\ Commit(forceWait(World, d))
  /\ op' = [name |-> "forceWait", amount |-> d,
            ret |-> IF tb.ongoingForcedStop THEN "ignored" ELSE "paused"]
  /\ UNCHANGED failures

\* The refill interval fires.
RefillTick ==
  /\ tb.timerId /\ tb.refillLeft = 0
  /\ LET r == refillTick(tb)
     IN Commit(drain(resolveServed([World EXCEPT !.tb = r.b], r.served)))
  /\ op' = NoCall
  /\ UNCHANGED failures

\* The timeout of the forced pause fires.
ForcedStopEnd ==
  /\ tb.ongoingForcedStop /\ tb.pauseLeft = 0
  /\ LET r == forcedStopEnd(tb)
     IN Commit(drain(resolveServed(
          [World EXCEPT !.tb = r.b, !.pauseDelay = 0, !.pauseElapsed = 0],
          r.served)))
  /\ op' = NoCall
  /\ UNCHANGED failures

\* A timer that is due: its callback runs before more time passes.
TimerDue ==
  \/ tb.timerId /\ tb.refillLeft = 0
  \/ tb.ongoingForcedStop /\ tb.pauseLeft = 0
  \/ \E t \in Tasks : pc[t] = "delay" /\ delayLeft[t] = 0

\* TickMs pass.
Tick ==
  /\ ~TimerDue
  /\ tb' = [tb EXCEPT !.refillLeft = Dec(@), !.pauseLeft = Dec(@)]
  /\ pauseElapsed' = IF tb.ongoingForcedStop
                       THEN Min(pauseElapsed + TickMs, ElapsedCap)
                       ELSE pauseElapsed
  /\ delayLeft' = [t \in Tasks |-> Dec(delayLeft[t])]
  /\ trace' = [t \in Tasks |->
                 IF pc[t] \in {"delay", "waiting"}
                   THEN [trace[t] EXCEPT !.ago = Min(@ + TickMs, ElapsedCap)]
                   ELSE trace[t]]
  /\ op' = NoCall
  /\ UNCHANGED <<tokRes, options, runningTasks, queue, pc, frames, pend,
                 invoked, result, pauseDelay, admitted, failures, history>>

\* Client code calls call(fn): submissions are numbered in the order made.
Call(t) ==
  /\ t <= options.submissions
  /\ pc[t] = "new"
  /\ \A u \in Tasks : u < t => pc[u] # "new"
  /\ Commit(drain(call(World, t)))
  /\ op' = NoCall
  /\ UNCHANGED failures

\* The outcomes of submission t so far, x being the latest.
Traced(tr, x, n) ==
  [tr EXCEPT
     !.first = IF n = 1 THEN FirstOutcome(x) ELSE @,
     !.allNet = @ /\ x.kind = "error" /\ x.status = 0,
     !.all429 = @ /\ x.kind = "response" /\ x.status = 429,
     !.restOk = @ /\ (n = 1 \/ (x.kind = "response" /\ x.status = 200)),
     !.ago = 0]

\* How the handlers of a call with this tryCount end on the outcome x of its
\* own invocation, when they end without a retry.
Terminal(x, tryCount) ==
  IF x.kind = "response"
    THEN IF isRateLimitedError(x) THEN "none"
         ELSE IF isClientSideError(x) THEN "clientError"
         ELSE "succeeded"
  ELSE IF retriesSpent(tryCount, options.maxRetries)
    THEN IF isClientSideError(x) /\ ~isRateLimitedError(x)
           THEN "clientError" ELSE "exhausted"
  ELSE IF isRateLimitedError(x) THEN "none"
  ELSE IF isClientSideError(x) THEN "clientError"
  ELSE "none"

\* The history of submission t, x being the outcome of its invocation by a
\* call with this tryCount.
Outcomes(h, x, tryCount) ==
  [h EXCEPT !.last = x,
            !.lastRej = IF x.kind = "error" THEN x ELSE @,
            !.thrown = Undefined,
            !.term = IF @ = "none" THEN Terminal(x, tryCount) ELSE @]

\* The promise of the wrapped operation of submission t settles with x.
Outcome(t, x) ==
  /\ pc[t] = "inflight"
  /\ IsFailure(x) => failures < options.failures
  /\ LET w0 == record([World EXCEPT !.trace[t] = Traced(@, x, invoked[t])],
                       t, Outcomes(history[t], x, Len(frames[t])))
     IN Commit(drain(IF x.kind = "response" THEN onFulfilled(w0, t, x)
                     ELSE onRejected(w0, t, x, FALSE)))
  /\ failures' = IF IsFailure(x) THEN failures + 1 ELSE failures
  /\ op' = NoCall

\* The timeout of the delay of submission t fires.
DelayEnd(t) ==
  /\ pc[t] = "delay" /\ delayLeft[t] = 0
  /\ Commit(drain(executeWithRetry([World EXCEPT !.pend[t] = NoFrame],
                                   t, pend[t])))
  /\ op' = NoCall
  /\ UNCHANGED failures

\* An AsyncCaller: the bucket is private, its only callers are submissions.
Next ==
  \/ \E t \in Tasks : Call(t)
  \/ \E t \in Tasks :
       \E x \in Fulfilments(invoked[t]) \cup Rejections(invoked[t]) :
         Outcome(t, x)
  \/ \E t \in Tasks : DelayEnd(t)
  \/ RefillTick
  \/ ForcedStopEnd
  \/ Tick

Spec == Init /\ [][Next]_vars

SpecSched == InitSched /\ [][Next]_vars

\* The event loop has a callback to run: a timer is due, or the promise of
\* a wrapped operation in flight is to settle.
ProgressDue ==
  \/ TimerDue
  \/ \E t \in Tasks : pc[t] = "inflight"

\* A step in which the event loop runs such a callback: the promise of an
\* operation in flight settles, or a timer that is due fires.
ProgressStep ==
  \/ \E t \in Tasks : pc[t] = "inflight" /\ pc'[t] # "inflight"
  \/ \E t \in Tasks :
       /\ pc[t] = "delay" /\ delayLeft[t] = 0
       /\ (pc'[t] # "delay" \/ delayLeft'[t] # 0)
  \/ tb.timerId /\ tb.refillLeft = 0 /\ tb'.refillLeft # 0
  \/ tb.ongoingForcedStop /\ tb.pauseLeft = 0 /\ ~tb'.ongoingForcedStop

\* An AsyncCaller whose timers fire and whose operations settle: time
\* passes, and the event loop does not stop while it has a callback to run
\* (weak fairness of the callbacks, their enabling condition written out).
Fairness ==
  /\ WF_vars(Tick)
  /\ <>[]ProgressDue => []<><<ProgressStep>>_vars

SpecLive == InitLive /\ [][Next]_vars /\ Fairness

\* An AsyncCaller whose operations may also fulfil with a response of status
\* 429 that has a message in its body.
NextRetry ==
  \/ \E t \in Tasks : Call(t)
  \/ \E t \in Tasks :
       \E x \in Fulfilments(invoked[t]) \cup Rejections(invoked[t])
                 \cup {Response(429, NoHeader, TRUE, invoked[t])} :
         Outcome(t, x)
  \/ \E t \in Tasks : DelayEnd(t)
  \/ RefillTick
  \/ ForcedStopEnd
  \/ Tick

SpecRetry == InitRetry /\ [][NextRetry]_vars

SpecShared == InitShared /\ [][Next]_vars

\* An AsyncCaller whose operations succeed or are rate-limited, with headers
\* of every form.
NextHeaders ==
  \/ \E t \in Tasks : Call(t)
  \/ \E t \in Tasks :
       \E x \in {Response(200, NoHeader, FALSE, invoked[t])}
                 \cup { Response(429, h, FALSE, invoked[t]) : h \in AllHeaders }
                 \cup { Rejection(429, h, invoked[t]) : h \in AllHeaders } :
         Outcome(t, x)
  \/ \E t \in Tasks : DelayEnd(t)
  \/ RefillTick
  \/ ForcedStopEnd
  \/ Tick

SpecHeaders == InitRetry /\ [][NextHeaders]_vars

\* An AsyncCaller whose operations succeed or reject without status.
NextDelay ==
  \/ \E t \in Tasks : Call(t)
  \/ \E t \in Tasks :
       \E x \in { Response(200, NoHeader, FALSE, invoked[t]),
                  Rejection(0, NoHeader, invoked[t]) } :
         Outcome(t, x)
  \/ \E t \in Tasks : DelayEnd(t)
  \/ RefillTick
  \/ Tick

SpecDelay == InitDelay /\ [][NextDelay]_vars

\* The construction of a TokenBucket.
NextNew == \E o \in NewOptions : New(o)

SpecNew == InitNew /\ [][NextNew]_vars

\* A TokenBucket used directly.
NextBucket ==
  \/ \E n \in Amounts : Consume(n)
  \/ \E c \in Clients : \E n \in Amounts : ConsumeAsync(c, n)
  \/ \E c \in Clients : Resume(c)
  \/ \E d \in PauseDelays : ForceWait(d)
  \/ RefillTick
  \/ ForcedStopEnd
  \/ Tick

SpecBucket == InitBucket /\ [][NextBucket]_vars

\* A TokenBucket used directly whose timers fire: time passes, and the
\* interval and the timeout of a forced pause run when they are due. Nothing
\* obliges a client to call again.
SpecBucketLive == InitBucket /\ [][NextBucket]_vars /\ Fairness

\* ------------------------------------------------------- properties: bucket

\* A step in which the refill interval fires.
RefillStep ==
  /\ op'.name = "none"
  /\ tb.timerId /\ tb.refillLeft = 0
  /\ tb'.refillLeft = windowInMs

\* A step in which a forced pause ends.
PauseEndStep == tb.ongoingForcedStop /\ ~tb'.ongoingForcedStop

\* The number of waiters a step has taken off the wait queue.
Dequeued ==
  IF Len(tb'.waitQueue) < Len(tb.waitQueue)
    THEN Len(tb.waitQueue) - Len(tb'.waitQueue)
    ELSE 0

\* The tokens handed, in a step, to the first k waiters of the wait queue.
RECURSIVE Granted(_)
Granted(k) ==
  IF k = 0 THEN 0
  ELSE Granted(k - 1)
       + (IF tokRes'[tb.waitQueue[k].id] = "true"
            THEN tb.waitQueue[k].amount ELSE 0)

\* C6: in every reachable state of a TokenBucket, after any sequence of
\* consume and consumeAsync calls, refill ticks, forced pauses and pause
\* ends, tokens is at least 0 and at most capacity.
C6_TokensWithinCapacity == tb.tokens >= 0 /\ tb.tokens <= tb.capacity

\* A bucket filled by more than one token per window is full again and its
\* timer has stopped itself.
C6_Witness ==
  /\ tb.fillPerWindow > 1
  /\ tb.tokens = tb.capacity
  /\ ~tb.timerId /\ ~tb.ongoingForcedStop

\* C7: consume(n) returns true exactly when tokens >= n held at the call;
\* when it returns true tokens has decreased by exactly n, and when it
\* returns false tokens is unchanged.
C7_ConsumeIffEnough ==
  [][op'.name = "consume" =>
       /\ op'.ret = "true" <=> tb.tokens >= op'.amount
       /\ op'.ret = "true" => tb'.tokens = tb.tokens - op'.amount
       /\ op'.ret = "false" => tb'.tokens = tb.tokens]_vars

\* consume(2) has returned false on a bucket that holds one token.
C7_Witness ==
  /\ op.name = "consume" /\ op.amount = 2 /\ op.ret = "false"
  /\ tb.tokens = 1

ServedInArrivalOrder ==
  /\ \/ tb'.waitQueue
          = SubSeq(tb.waitQueue, Dequeued + 1, Len(tb.waitQueue))
     \/ /\ Len(tb'.waitQueue) = Len(tb.waitQueue) + 1
        /\ SubSeq(tb'.waitQueue, 1, Len(tb.waitQueue)) = tb.waitQueue
  /\ (RefillStep \/ PauseEndStep) =>
       (tb'.waitQueue = <<>> \/ tb'.tokens = 0)
  /\ \A c \in Ids :
       (tokRes[c] = "pending" /\ tokRes'[c] # "pending") =>
         \E i \in 1..Dequeued : tb.waitQueue[i].id = c

\* C10 as stated: the waiters of the bucket are served in strict FIFO order;
\* they are dequeued in arrival order until the queue is empty or tokens is
\* 0, and a waiter that enqueued later never obtains a token before one
\* that enqueued earlier.
C10_StrictFifo ==
  [][/\ ServedInArrivalOrder
     /\ \A i, j \in 1..Len(tb.waitQueue) :
          (i < j /\ tokRes'[tb.waitQueue[j].id] = "true") =>
            tokRes'[tb.waitQueue[i].id] = "true"]_vars

\* C10: the waiters of the bucket are dequeued in arrival order until the
\* queue is empty or tokens is 0; a waiter that enqueued later never
\* obtains a token before an earlier waiter that asked for one token.
C10_FifoUnitAmounts ==
  [][/\ ServedInArrivalOrder
     /\ \A i, j \in 1..Len(tb.waitQueue) :
          (i < j /\ tb.waitQueue[i].amount = 1
           /\ tokRes'[tb.waitQueue[j].id] = "true") =>
            tokRes'[tb.waitQueue[i].id] = "true"]_vars

\* Two waiters have been served in one step: one got its token, the other,
\* dequeued when fewer tokens were left than it asked for, got false.
C10_Witness ==
  /\ \E c \in Clients : tokRes[c] = "true"
  /\ \E c \in Clients : tokRes[c] = "false"
  /\ tb.waitQueue = <<>>

\* C14: consumeAsync(amount) called when tokens < amount returns a promise
\* that is pending, and a pending promise resolves only in a step in which
\* the refill interval fires or a forced pause ends; while the timer runs it
\* resolves true only when the refill interval fires.
C14_WaitsForRefillOrPauseEnd ==
  [][/\ (op'.name = "consumeAsync" /\ tb.tokens < op'.amount) =>
          /\ op'.ret = "pending"
          /\ \E c \in Clients :
               /\ tokRes[c] = "none" /\ tokRes'[c] = "pending"
               /\ tb'.waitQueue
                    = Append(tb.waitQueue, [id |-> c, amount |-> op'.amount])
     /\ \A c \in Clients :
          (tokRes[c] = "pending" /\ tokRes'[c] # "pending") =>
            /\ RefillStep \/ PauseEndStep
            /\ (tb.timerId /\ tokRes'[c] = "true") => RefillStep]_vars

\* A waiter is queued on an empty bucket whose refill interval is about to
\* fire.
C14_Witness ==
  /\ tb.tokens = 0 /\ tb.timerId /\ tb.refillLeft = 0
  /\ tb.waitQueue # <<>>
  /\ tokRes[tb.waitQueue[1].id] = "pending"

\* The conditions C15 puts on the options.
ValidOptions(o) ==
  /\ Greater(o.capacity, Num(0))
  /\ Greater(o.fillPerWindow, Num(0)) /\ LessEq(o.fillPerWindow, o.capacity)
  /\ Greater(o.windowInMs, Num(0))
  /\ o.initialTokens # NotGiven =>
       /\ LessEq(Num(0), o.initialTokens)
       /\ LessEq(o.initialTokens, o.capacity)

\* C15: new TokenBucket(options) throws, with no bucket made and no timer
\* started, if and only if the options violate one of capacity > 0,
\* 0 < fillPerWindow <= capacity, windowInMs > 0, and initialTokens (when
\* given) in [0, capacity]; otherwise tokens starts at initialTokens when
\* given and at capacity when not, and the timer is started.
C15_ConstructionValidates ==
  op.name = "new" =>
    /\ op.ret = "error" <=> ~ValidOptions(op.options)
    /\ op.ret = "error" => (tb = NoBucket /\ ~tb.timerId)
    /\ op.ret = "ok" =>
         /\ tb.timerId
         /\ tb.capacity = op.options.capacity
         /\ tb.tokens = IF op.options.initialTokens # NotGiven
                          THEN op.options.initialTokens
                          ELSE op.options.capacity

\* C19: forceWaitUntilMilisecondsPassed called during a forced pause changes
\* nothing: the bucket (tokens, flag, timer, time left of the pause), its
\* waiters and the delay of the pause stay as they are, and the pause ends
\* when the delay of the first call has passed.
C19_SecondForceWaitIgnored ==
  [][/\ (op'.name = "forceWait" /\ tb.ongoingForcedStop) =>
          /\ tb' = tb /\ tokRes' = tokRes
          /\ pauseDelay' = pauseDelay /\ pauseElapsed' = pauseElapsed
     /\ PauseEndStep => pauseElapsed = pauseDelay]_vars

\* A call during a forced pause has asked for a longer delay.
C19_Witness ==
  /\ op.name = "forceWait" /\ op.ret = "ignored"
  /\ tb.ongoingForcedStop /\ op.amount > pauseDelay

\* ------------------------------------------------------- properties: caller

\* The submissions admitted and not yet settled.
Running ==
  { t \in Tasks :
      pc[t] \in {"admitted", "waiting", "tokenReady", "inflight", "delay"} }

\* C1: in every reachable state runningTasks is at least 0 and at most the
\* concurrency N, it counts the submissions admitted and not settled, and
\* so at most N wrapped operations are in flight.
C1_RunningWithinConcurrency ==
  /\ runningTasks >= 0 /\ runningTasks <= options.concurrency
  /\ runningTasks = Cardinality(Running)
  /\ Cardinality({ t \in Tasks : pc[t] = "inflight" }) <= options.concurrency

\* Every slot is taken, an operation is in flight and a submission waits.
C1_Witness ==
  /\ runningTasks = options.concurrency
  /\ queue # <<>>
  /\ \E t \in Tasks : pc[t] = "inflight"

\* C2 as stated: whatever the outcomes of the wrapped operation, it is
\* invoked at most maxRetries + 1 times; when every invocation fulfils with
\* status 429, it has been invoked exactly maxRetries + 1 times once call()
\* has settled.
C2_AtMostMaxRetriesPlusOne ==
  \A t \in Tasks :
    /\ invoked[t] <= options.maxRetries + 1
    /\ (pc[t] = "settled" /\ invoked[t] > 0 /\ trace[t].all429) =>
         invoked[t] = options.maxRetries + 1

\* C3 as stated: once the first invocation has fulfilled with a status in
\* [400,500) other than 429, call() has rejected with that value, with no
\* delay, and the operation has been invoked exactly once.
C3_ClientErrorResponseRejects ==
  \A t \in Tasks :
    trace[t].first = "clientError" =>
      /\ pc[t] = "settled"
      /\ invoked[t] = 1
      /\ result[t].how = "rejected"
      /\ result[t].value.kind = "response" /\ result[t].value.i = 1
      /\ isClientSideError(result[t].value)
      /\ ~isRateLimitedError(result[t].value)

\* C4: when every invocation rejects with an error without status, the
\* operation is invoked no more than maxRetries + 1 times, and once call()
\* has settled it has been invoked exactly maxRetries + 1 times and call()
\* has rejected with the error of the last invocation.
C4_TransientRejections ==
  \A t \in Tasks :
    (invoked[t] > 0 /\ trace[t].allNet) =>
      /\ invoked[t] <= options.maxRetries + 1
      /\ pc[t] = "settled" =>
           /\ invoked[t] = options.maxRetries + 1
           /\ result[t] = [how |-> "rejected",
                           value |-> Rejection(0, NoHeader, invoked[t])]

\* With maxRetries 1, two invocations have rejected without status and
\* call() has settled.
C4_Witness ==
  /\ options.maxRetries = 1
  /\ \E t \in Tasks :
       pc[t] = "settled" /\ trace[t].allNet /\ invoked[t] = 2

\* A step in which the first invocation of submission t fulfils with status
\* 429 and an integer Retry-After.
FirstRetryAfter(t) ==
  trace[t].first = "none" /\ trace'[t].first = "retryAfter"

\* What C5 has in common with its original statement: after such a first
\* outcome the bucket is in a forced pause and submission t waits
\* RetryAfterSecs * 1000 ms, so that the second invocation starts no
\* earlier than that after the first outcome.
RetryAfterWaits(t) ==
  /\ FirstRetryAfter(t) =>
       /\ tb'.ongoingForcedStop /\ tb'.tokens = 0
       /\ pc'[t] = "delay" /\ delayLeft'[t] = RetryAfterSecs * 1000
  /\ (trace[t].first = "retryAfter" /\ invoked[t] = 1 /\ invoked'[t] = 2) =>
       trace[t].ago >= RetryAfterSecs * 1000

\* After such a first outcome and successes only, there are two invocations
\* and call() resolves with the value of the second.
ResolvesWithSecond(t) ==
  (trace'[t].first = "retryAfter" /\ trace'[t].restOk) =>
    /\ invoked'[t] <= 2
    /\ pc'[t] = "settled" =>
         /\ invoked'[t] = 2
         /\ result'[t] = [how |-> "resolved",
                          value |-> Response(200, NoHeader, FALSE, 2)]

\* C5 as stated: when the first invocation fulfils with status 429 and
\* Retry-After of s seconds and the second succeeds, the bucket is forced idle
\* for s * 1000 ms, the second invocation starts no earlier than s * 1000 ms
\* after the first outcome, there are exactly two invocations and call()
\* resolves with the value of the second.
C5_RetryAfterSeconds ==
  [][\A t \in Tasks :
       /\ RetryAfterWaits(t)
       /\ FirstRetryAfter(t) => tb'.pauseLeft = RetryAfterSecs * 1000
       /\ ResolvesWithSecond(t)]_vars

\* C5: the same, the pause of s * 1000 ms being forced when no forced pause
\* is going on already, and the two invocations and the resolution with the
\* value of the second being for maxRetries >= 1.
C5_RetryAfterSecondsWithBudget ==
  [][\A t \in Tasks :
       /\ RetryAfterWaits(t)
       /\ (FirstRetryAfter(t) /\ ~tb.ongoingForcedStop) =>
            tb'.pauseLeft = RetryAfterSecs * 1000
       /\ options.maxRetries >= 1 => ResolvesWithSecond(t)]_vars

\* After a first outcome with Retry-After the second invocation has
\* succeeded and call() has resolved.
C5_Witness ==
  \E t \in Tasks :
    /\ trace[t].first = "retryAfter" /\ trace[t].restOk
    /\ pc[t] = "settled" /\ invoked[t] = 2
    /\ result[t].how = "resolved"

\* C9: the submissions are admitted in the order of their calls of call():
\* the submissions admitted so far are the first ones made, in that order.
C9_AdmittedInCallOrder ==
  \A i \in 1..Len(admitted) : admitted[i] = i

\* Two submissions wait in the queue behind one that is running.
C9_Witness ==
  /\ Len(queue) >= 2
  /\ Len(admitted) >= 1

\* ----------------------------------------------------- properties: progress

\* C11: when timers fire and every invocation settles, every submission made
\* is admitted and the promise of its call() settles, and it settles once:
\* a promise that has resolved or rejected keeps its outcome.
C11_EverySubmissionSettles ==
  /\ \A t \in Tasks :
       (pc[t] # "new") ~>
         (pc[t] = "settled" /\ result[t].how # "pending"
          /\ \E i \in 1..Len(admitted) : admitted[i] = t)
  /\ [][\A t \in Tasks :
          result[t].how # "pending" => result'[t] = result[t]]_vars

\* With one slot, the second submission has waited for the first and both
\* have settled.
C11_Witness ==
  /\ options.concurrency = 1
  /\ Len(admitted) = 2
  /\ pc[1] = "settled" /\ pc[2] = "settled"

\* ------------------------------------------------------- properties: delays

\* The delays of C12 after the attempts 1 to 6, in ms.
DefaultDelays == <<1000, 2000, 4000, 8000, 10000, 10000>>

\* A step in which attempt n of submission t fails and a delay starts.
FailsAndDelays(t, n) ==
  pc[t] = "inflight" /\ invoked[t] = n /\ pc'[t] = "delay"

\* C12: the delay after the n-th attempt has failed with a transient error
\* is min(minDelayInMs * backoffFactor^(n-1), maxDelayInMs), that is 1000,
\* 2000, 4000, 8000, 10000, 10000 ms for n = 1..6, and the next attempt
\* starts no earlier; with maxRetries >= 2 an operation that rejects twice
\* and then succeeds is invoked 3 times and call() resolves with the third
\* result.
C12_DefaultDelays ==
  [][\A t \in Tasks :
       /\ \A n \in 1..(MaxDelayRetries + 1) :
            FailsAndDelays(t, n) =>
              /\ delayLeft'[t]
                   = Min(minDelayInMs * backoffFactor ^ (n - 1), maxDelayInMs)
              /\ n <= Len(DefaultDelays) => delayLeft'[t] = DefaultDelays[n]
       /\ \A n \in 1..(MaxDelayRetries + 1) :
            (invoked[t] = n /\ invoked'[t] = n + 1) =>
              trace[t].ago
                >= Min(minDelayInMs * backoffFactor ^ (n - 1), maxDelayInMs)
       /\ (options.maxRetries >= 2 /\ pc'[t] = "settled") =>
            /\ invoked'[t] <= 2 => result'[t].how = "resolved"
            /\ (invoked'[t] = 3 /\ result'[t].how = "resolved") =>
                 result'[t].value = Response(200, NoHeader, FALSE, 3)]_vars

\* The sixth attempt has failed and the delay of 10000 ms has started.
C12_Witness ==
  \E t \in Tasks :
    /\ pc[t] = "delay" /\ invoked[t] = 6
    /\ delayLeft[t] = 10000 /\ trace[t].allNet

\* ------------------------------------------------------ properties: retries

\* The error C13 expects of the test on tryCount that follows the token.
ExhaustedError(h) ==
  IF h.lastRej # Undefined THEN h.lastRej
  ELSE IF h.last.kind = "response" /\ h.last.msg
    THEN [kind |-> "error", status |-> 0, hdr |-> NoHeader, msg |-> TRUE,
          src |-> "text", i |-> h.last.i]
  ELSE [kind |-> "error", status |-> 0, hdr |-> NoHeader, msg |-> FALSE,
        src |-> "max", i |-> 0]

\* C13: the error thrown when tryCount > maxRetries + 1 is the latest error
\* an invocation of the submission rejected with, if any did; if none did,
\* an error made of the message of the last response; and if that has no
\* message, the error 'Max retries exceeded.'.
C13_ExhaustedThrowsLastRejection ==
  \A t \in Tasks :
    history[t].thrown # Undefined =>
      history[t].thrown = ExhaustedError(history[t])

\* C16: once an attempt of a submission has ended in success, in a client
\* error or with the retries exhausted, the submission is settled and stays
\* so: no invocation, no token and no delay follow.
C16_TerminalStatesAbsorbing ==
  [][\A t \in Tasks :
       history[t].term # "none" =>
         /\ pc[t] = "settled" /\ pc'[t] = "settled"
         /\ invoked'[t] = invoked[t]
         /\ history'[t].tokens = history[t].tokens
         /\ delayLeft'[t] = 0]_vars

\* A step in which the invocation made by the call with
\* tryCount = maxRetries + 1 has a rate-limited or transient outcome.
BudgetSpentFailure(t) ==
  /\ pc[t] = "inflight" /\ pc'[t] # "inflight"
  /\ Len(frames[t]) = options.maxRetries + 1
  /\ IsFailure(history'[t].last)

\* C17: a rate-limited or transient outcome of the attempt with index
\* maxRetries + 1, fulfilment or rejection, ends the submission at once: the
\* promise of call() rejects in that step, no delay is started, no pause is
\* forced on the bucket and no token is taken.
C17_BudgetSpentEndsAtOnce ==
  [][\A t \in Tasks :
       BudgetSpentFailure(t) =>
         /\ pc'[t] = "settled" /\ result'[t].how = "rejected"
         /\ delayLeft'[t] = 0
         /\ tb'.ongoingForcedStop = tb.ongoingForcedStop
         /\ tb'.pauseLeft = tb.pauseLeft
         /\ history'[t].tokens = history[t].tokens]_vars

\* A step in which an invocation rejects with a status in [400,500) other
\* than 429.
ClientErrorRejection(t) ==
  /\ pc[t] = "inflight" /\ pc'[t] # "inflight"
  /\ history'[t].last.kind = "error"
  /\ history'[t].last.status >= 400 /\ history'[t].last.status < 500
  /\ history'[t].last.status # 429

\* C18: when an invocation rejects with a status in [400,500) other than 429,
\* whatever the attempt, the promise of call() rejects with that error in the
\* same step, no delay is started and no pause is forced on the bucket; and a
\* settled submission is not invoked again.
C18_ClientErrorRejectionPropagates ==
  [][\A t \in Tasks :
       /\ ClientErrorRejection(t) =>
            /\ pc'[t] = "settled"
            /\ result'[t] = [how |-> "rejected", value |-> history'[t].last]
            /\ delayLeft'[t] = 0
            /\ tb'.ongoingForcedStop = tb.ongoingForcedStop
            /\ tb'.pauseLeft = tb.pauseLeft
            /\ pauseDelay' = pauseDelay
       /\ pc[t] = "settled" =>
            /\ pc'[t] = "settled" /\ result'[t] = result[t]
            /\ invoked'[t] = invoked[t]
            /\ history'[t].tokens = history[t].tokens]_vars

\* The second invocation has rejected with status 404 and so has call().
C18_Witness ==
  \E t \in Tasks :
    /\ pc[t] = "settled" /\ invoked[t] = 2
    /\ result[t] = [how |-> "rejected", value |-> Rejection(404, NoHeader, 2)]
    /\ history[t].last = Rejection(404, NoHeader, 2)

\* The invocations of the first n submissions, the tokens they have taken.
RECURSIVE Invocations(_)
Invocations(n) == IF n = 0 THEN 0 ELSE Invocations(n - 1) + invoked[n]
RECURSIVE TokensTaken(_)
TokensTaken(n) ==
  IF n = 0 THEN 0 ELSE TokensTaken(n - 1) + history[n].tokens

\* C20: a token is taken from the bucket before each invocation and before
\* each test of tryCount > maxRetries + 1 that throws: a submission has taken
\* at least as many tokens as it has invocations and such throws, and the
\* invocations of all submissions are at most the tokens taken by all.
C20_TokenBeforeInvocation ==
  /\ \A t \in Tasks :
       invoked[t] + history[t].exceeded <= history[t].tokens
  /\ Invocations(MaxTasks) <= TokensTaken(MaxTasks)

\* Two submissions have been invoked, and the test on tryCount has thrown
\* for the first.
C20_Witness ==
  /\ invoked[1] >= 1 /\ invoked[2] >= 1
  /\ history[1].exceeded >= 1
  /\ history[1].tokens = invoked[1] + history[1].exceeded

\* --------------------------------------------------- properties: scheduler

\* The submissions a step admits, and those whose call() it settles.
Admitted ==
  { t \in Tasks : pc[t] \in {"new", "queued"} /\ pc'[t] \notin {"new", "queued"} }
Settled == { t \in Tasks : pc[t] # "settled" /\ pc'[t] = "settled" }

\* C21: runningTasks is the number of submissions admitted and not settled:
\* a step changes it by the submissions it admits less those it settles, so
\* not at all while tokens or delays are waited for; a submission is admitted
\* once; and a step that settles a submission ends with the queue empty or
\* every slot taken, processTaskQueue having run.
C21_RunningCountsAdmitted ==
  [][/\ runningTasks' = runningTasks + Cardinality(Admitted) - Cardinality(Settled)
     /\ runningTasks' = Cardinality(Running')
     /\ admitted' \in {admitted} \cup { Append(admitted, t) : t \in Admitted }
          \cup { Append(Append(admitted, t), u) : t, u \in Admitted }
     /\ Len(admitted') = Len(admitted) + Cardinality(Admitted)
     /\ \A t \in Tasks : pc[t] = "settled" => pc'[t] = "settled"
     /\ Settled # {} =>
          (queue' = <<>> \/ runningTasks' = options.concurrency)]_vars

\* With one slot, the first submission has settled and the second, which
\* waited in the queue, runs in its place.
C21_Witness ==
  /\ options.concurrency = 1
  /\ pc[1] = "settled" /\ 2 \in Running
  /\ runningTasks = 1 /\ admitted = <<1, 2>>

\* ---------------------------------------------------- properties: headers

\* A step in which the invocation of a call with retries left has a
\* rate-limited outcome without a Retry-After that is a number or a date.
RateLimitedUnparsed(t) ==
  /\ pc[t] = "inflight" /\ pc'[t] # "inflight"
  /\ Len(frames[t]) <= options.maxRetries
  /\ history'[t].last.status = 429
  /\ history'[t].last.hdr.form \in {"noHeaders", "none", "text"}

\* C22: a rate-limited outcome, fulfilment or rejection, of an attempt with
\* retries left, that has no headers, no Retry-After, or a Retry-After that is
\* neither an integer nor a date, is followed by the default delay of that
\* attempt, min(minDelayInMs * backoffFactor^(tryCount-1), maxDelayInMs), and
\* the bucket is left as it was: tokens, forced pause and timer.
C22_UnparsedRetryAfterDefaults ==
  [][\A t \in Tasks :
       RateLimitedUnparsed(t) =>
         /\ pc'[t] = "delay"
         /\ delayLeft'[t]
              = Min(minDelayInMs * backoffFactor ^ (Len(frames[t]) - 1),
                    maxDelayInMs)
         /\ tb' = tb
         /\ pauseDelay' = pauseDelay /\ pauseElapsed' = pauseElapsed]_vars

\* A rejection with status 429 whose Retry-After is text has started the
\* default delay, the bucket not paused.
C22_Witness ==
  \E t \in Tasks :
    /\ pc[t] = "delay" /\ delayLeft[t] = minDelayInMs
    /\ history[t].last.kind = "error" /\ history[t].last.status = 429
    /\ history[t].last.hdr.form = "text"
    /\ ~tb.ongoingForcedStop

\* ------------------------------------------------------ properties: timer

\* A step in which the callback of the refill interval runs.
TimerFires ==
  /\ tb.timerId /\ tb.refillLeft = 0
  /\ op'.name = "none" /\ tb' # tb

\* When the refill timer may start: on consume or consumeAsync outside a
\* forced pause, and at the end of a forced pause.
StartsAsAllowed ==
  (~tb.timerId /\ tb'.timerId) =>
    \/ op'.name \in {"consume", "consumeAsync"} /\ ~tb.ongoingForcedStop
    \/ PauseEndStep

C24_ConsumeAsyncNeverFalse ==
  \A t \in Tasks :
    /\ tokRes[t] # "false"
    /\ history[t].falses = 0
    /\ history[t].tokens = invoked[t] + history[t].exceeded

\* Both submissions wait in the queue of the bucket, each after an attempt,
\* for a forced pause that is about to end.
C24_Witness ==
  /\ pc[1] = "waiting" /\ pc[2] = "waiting"
  /\ Len(tb.waitQueue) = 2
  /\ tb.ongoingForcedStop /\ tb.pauseLeft = 0
  /\ history[1].tokens >= 1 /\ history[2].tokens >= 1

\* C25: with requests of one token, as those of the submissions of an
\* AsyncCaller, a state in which tokens > 0 has an empty wait queue, so that
\* no consumeAsync() finds a token while an earlier request waits; and the
\* requests that wait are all for one token, one for each waiting submission.
C25_NoTokenWhileWaiters ==
  /\ tb.tokens > 0 => tb.waitQueue = <<>>
  /\ \A k \in 1..Len(tb.waitQueue) :
       /\ tb.waitQueue[k].amount = 1
       /\ pc[tb.waitQueue[k].id] = "waiting"
  /\ \A t \in Tasks :
       pc[t] = "waiting" =>
         Cardinality({ k \in 1..Len(tb.waitQueue) : tb.waitQueue[k].id = t }) = 1

\* A submission waits in the queue of the empty bucket while another, in its
\* retry delay, has yet to ask for its token.
C25_Witness ==
  /\ tb.tokens = 0
  /\ \E t, u \in Tasks :
       /\ pc[t] = "waiting" /\ pc[u] = "delay"
       /\ tb.waitQueue # <<>> /\ tb.waitQueue[1].id = t

\* C26: no submission waits in the queue while a slot is free: in every
\* reachable state a queue that is not empty has runningTasks = concurrency,
\* and the queue holds the submissions made and not admitted, in call order.
C26_WorkConserving ==
  /\ queue # <<>> => runningTasks = options.concurrency
  /\ \A i \in 1..Len(queue) : pc[queue[i]] = "queued"
  /\ \A t \in Tasks :
       pc[t] = "queued" => \E i \in 1..Len(queue) : queue[i] = t
  /\ \A i, j \in 1..Len(queue) : i < j => queue[i] < queue[j]

\* A submission has settled, its slot has gone to the next in the queue, and
\* one more still waits with every slot taken.
C26_Witness ==
  /\ \E t \in Tasks : pc[t] = "settled"
  /\ queue # <<>>
  /\ runningTasks = options.concurrency
  /\ Len(admitted) > options.concurrency

\* ------------------------------------------------------ properties: waiters

\* C27: no waiter of consumeAsync is stranded: in every reachable state with
\* a wait queue that is not empty the refill timer is running or a forced
\* pause is ongoing, and, the timers firing, every pending consumeAsync
\* promise is eventually resolved.
C27_NoWaiterStranded ==
  /\ [](tb.waitQueue # <<>> => tb.timerId \/ tb.ongoingForcedStop)
  /\ \A c \in Clients :
       (tokRes[c] = "pending") ~> (tokRes[c] # "pending")

====
